---- MODULE Spec2Model ----
(***************************************************************************)
(* Model of selector_calculator (src/src/main.rs): the run of main() from  *)
(* the point where the two CSV tables hold their headers, through the walk *)
(* over the discovered .sol files, to the writing of the two CSV files.    *)
(*                                                                         *)
(* Text is modelled as a sequence of one-character strings, so that the    *)
(* formatting, hex encoding and CSV quoting are computed character by      *)
(* character as the code computes them.  Option<T> is modelled as a        *)
(* sequence of length 0 (None) or 1 (Some).                                *)
(***************************************************************************)
EXTENDS Integers, Sequences, FiniteSets, TLC

\* ------------------------------------------------------------------------
\* Bounds of the model
\* ------------------------------------------------------------------------
\* number of .sol files the walk yields in one run
MaxArtifacts == 2
\* number of ABI entries decoded over one run (all contracts together)
MaxEntries == 3
\* length of a field handed to escape_csv_field in CsvSpec
MaxFieldLen == 3

\* ------------------------------------------------------------------------
\* Text helpers
\* ------------------------------------------------------------------------
None == <<>>
Some(x) == <<x>>

\* printable ASCII, code points 32..95, in order
AsciiLow ==
  << " ", "!", "\"", "#", "$", "%", "&", "'", "(", ")", "*", "+", ",", "-", ".", "/",
     "0", "1", "2", "3", "4", "5", "6", "7", "8", "9", ":", ";", "<", "=", ">", "?",
     "@", "A", "B", "C", "D", "E", "F", "G", "H", "I", "J", "K", "L", "M", "N", "O",
     "P", "Q", "R", "S", "T", "U", "V", "W", "X", "Y", "Z", "[", "\\", "]", "^", "_" >>

\* printable ASCII, code points 97..126, in order
AsciiHigh ==
  << "a", "b", "c", "d", "e", "f", "g", "h", "i", "j", "k", "l", "m", "n", "o",
     "p", "q", "r", "s", "t", "u", "v", "w", "x", "y", "z", "{", "|", "}", "~" >>

\* the characters text is made of in this model
Chars == { AsciiLow[i] : i \in 1..Len(AsciiLow) } \cup { AsciiHigh[i] : i \in 1..Len(AsciiHigh) } \cup { "\n" }

\* the UTF-8 byte of each character (all are ASCII: one byte each)
ByteOf ==
  [c \in Chars |->
     IF c = "\n" THEN 10
     ELSE IF \E i \in 1..Len(AsciiLow) : AsciiLow[i] = c
          THEN 31 + (CHOOSE i \in 1..Len(AsciiLow) : AsciiLow[i] = c)
          ELSE 96 + (CHOOSE i \in 1..Len(AsciiHigh) : AsciiHigh[i] = c)]

\* str::as_bytes
as_bytes(s) == [i \in 1..Len(s) |-> ByteOf[s[i]]]

RECURSIVE Concat(_)
\* concatenation of a sequence of texts
Concat(ss) == IF ss = <<>> THEN <<>> ELSE Head(ss) \o Concat(Tail(ss))

RECURSIVE join(_, _)
\* [String]::join(sep)
join(ss, sep) ==
  IF ss = <<>> THEN <<>>
  ELSE IF Len(ss) = 1 THEN ss[1]
  ELSE ss[1] \o sep \o join(Tail(ss), sep)

\* Option::unwrap_or_else / unwrap_or_default
unwrap_or(opt, dflt) == IF opt = None THEN dflt ELSE opt[1]

\* String::contains(char)
contains(s, c) == \E i \in 1..Len(s) : s[i] = c

RECURSIVE replace(_, _, _)
\* String::replace(char, &str)
replace(s, c, by) ==
  IF s = <<>> THEN <<>>
  ELSE (IF Head(s) = c THEN by ELSE <<Head(s)>>) \o replace(Tail(s), c, by)

\* ------------------------------------------------------------------------
\* String literals of the program
\* ------------------------------------------------------------------------
unknown == <<"u", "n", "k", "n", "o", "w", "n">>
anonymous_suffix == <<" ", "[", "a", "n", "o", "n", "y", "m", "o", "u", "s", "]">>
empty == <<>>
events_header ==
  << <<"c","o","n","t","r","a","c","t","N","a","m","e">>,
     <<"e","v","e","n","t">>,
     <<"t","o","p","i","c">> >>
selectors_header ==
  << <<"c","o","n","t","r","a","c","t","N","a","m","e">>,
     <<"f","u","n","c","t","i","o","n">>,
     <<"s","e","l","e","c","t","o","r">> >>

\* ------------------------------------------------------------------------
\* escape_csv_field
\* ------------------------------------------------------------------------
\* variant: wraps in quotes without doubling the quotes inside
escape_csv_field_no_doubling(field) ==
  IF contains(field, ",") \/ contains(field, "\"") \/ contains(field, "\n")
  THEN <<"\"">> \o field \o <<"\"">>
  ELSE field

escape_csv_field(field) ==
  IF contains(field, ",") \/ contains(field, "\"") \/ contains(field, "\n")
  THEN LET escaped == replace(field, "\"", <<"\"", "\"">>)
       IN  <<"\"">> \o escaped \o <<"\"">>
  ELSE field

\* one line of a CSV file: format!("{},{},{}\n", ...)
csv_line(row) ==
  escape_csv_field(row[1]) \o <<",">> \o escape_csv_field(row[2]) \o <<",">>
    \o escape_csv_field(row[3]) \o <<"\n">>

\* ------------------------------------------------------------------------
\* Digest and hex encoding
\* ------------------------------------------------------------------------
DigestLen == 32
SelectorLen == 4

RECURSIVE Absorb(_, _)
\* one pass over the input bytes
Absorb(bytes, acc) ==
  IF bytes = <<>> THEN acc
  ELSE Absorb(Tail(bytes), (acc * 31 + Head(bytes) + 1) % 65536)

\* Keccak256::digest: a fixed, deterministic function from a byte string to
\* DigestLen bytes.  The sponge permutation of the sha3 crate is not part of
\* this program; the model uses a byte-wise mixing function in its place,
\* which keeps what the program relies on: the output length and that the
\* output is a function of the input bytes alone.
Keccak256_digest(bytes) ==
  LET h == Absorb(bytes, Len(bytes))
  IN  [i \in 1..DigestLen |-> ((h + i) * (2 * i + 1) + (h \div 256)) % 256]

HexDigits == <<"0","1","2","3","4","5","6","7","8","9","a","b","c","d","e","f">>

\* hex::encode: two lowercase hex digits per byte, high nibble first
hex_encode(bytes) ==
  [k \in 1..(2 * Len(bytes)) |->
     LET byte == bytes[(k + 1) \div 2]
     IN  IF k % 2 = 1 THEN HexDigits[(byte \div 16) + 1] ELSE HexDigits[(byte % 16) + 1]]

\* ------------------------------------------------------------------------
\* ABI entries (struct AbiEntry, struct AbiInput)
\* ------------------------------------------------------------------------
\* An AbiInput is its param_type; an AbiEntry is
\*   [kind, name : Option<String>, inputs : Option<Vec<AbiInput>>, anonymous]
AbiEntry(kind, name, inputs, anonymous) ==
  [kind |-> kind, name |-> name, inputs |-> inputs, anonymous |-> anonymous]

\* variant: types joined with ", "
function_arm_space_join(entry) ==
  LET name == unwrap_or(entry.name, unknown)
      input_types == join(unwrap_or(entry.inputs, <<>>), <<",", " ">>)
      signature == name \o <<"(">> \o input_types \o <<")">>
      hash == Keccak256_digest(as_bytes(signature))
      selector == SubSeq(hash, 1, SelectorLen)
      selector_hex == <<"0", "x">> \o hex_encode(selector)
  IN  <<signature, selector_hex>>

\* variant: the selector is the last four bytes of the digest
function_arm_last4(entry) ==
  LET name == unwrap_or(entry.name, unknown)
      input_types == join(unwrap_or(entry.inputs, <<>>), <<",">>)
      signature == name \o <<"(">> \o input_types \o <<")">>
      hash == Keccak256_digest(as_bytes(signature))
      selector == SubSeq(hash, DigestLen - SelectorLen + 1, DigestLen)
      selector_hex == <<"0", "x">> \o hex_encode(selector)
  IN  <<signature, selector_hex>>

\* the "function" arm of the match: (signature, selector_hex)
function_arm(entry) ==
  LET name == unwrap_or(entry.name, unknown)
      input_types == join(unwrap_or(entry.inputs, <<>>), <<",">>)
      signature == name \o <<"(">> \o input_types \o <<")">>
      hash == Keccak256_digest(as_bytes(signature))
      selector == SubSeq(hash, 1, SelectorLen)
      selector_hex == <<"0", "x">> \o hex_encode(selector)
  IN  <<signature, selector_hex>>

\* variant: the digest is taken after the display suffix is appended
event_arm_hash_display(entry) ==
  LET name == unwrap_or(entry.name, unknown)
      input_types == join(unwrap_or(entry.inputs, <<>>), <<",">>)
      signature == name \o <<"(">> \o input_types \o <<")">>
      display == IF entry.anonymous THEN signature \o anonymous_suffix ELSE signature
      hash == Keccak256_digest(as_bytes(display))
      topic_hex == <<"0", "x">> \o hex_encode(hash)
  IN  <<display, topic_hex>>

\* the "event" arm of the match: (signature or signature + " [anonymous]", topic_hex)
event_arm(entry) ==
  LET name == unwrap_or(entry.name, unknown)
      input_types == join(unwrap_or(entry.inputs, <<>>), <<",">>)
      signature == name \o <<"(">> \o input_types \o <<")">>
      hash == Keccak256_digest(as_bytes(signature))
      topic_hex == <<"0", "x">> \o hex_encode(hash)
  IN  IF entry.anonymous
      THEN <<signature \o anonymous_suffix, topic_hex>>
      ELSE <<signature, topic_hex>>

\* variant: each pair is put in front of the vector
match_entry_prepend(entry, acc) ==
  IF entry.kind = "function"
  THEN [acc EXCEPT !.contract_functions = <<function_arm(entry)>> \o @]
  ELSE IF entry.kind = "event"
  THEN [acc EXCEPT !.contract_events = <<event_arm(entry)>> \o @]
  ELSE acc

\* variant: every entry that is not an event is taken as a function
match_entry_default_function(entry, acc) ==
  IF entry.kind = "event"
  THEN [acc EXCEPT !.contract_events = Append(@, event_arm(entry))]
  ELSE [acc EXCEPT !.contract_functions = Append(@, function_arm(entry))]

\* one iteration of "for entry in abi_entries": the two per-contract vectors
\* after the match on entry.kind
match_entry(entry, acc) ==
  IF entry.kind = "function"
  THEN [acc EXCEPT !.contract_functions = Append(@, function_arm(entry))]
  ELSE IF entry.kind = "event"
  THEN [acc EXCEPT !.contract_events = Append(@, event_arm(entry))]
  ELSE acc

RECURSIVE parse_entries(_, _)
\* the whole loop over abi_entries, in order
parse_entries(abi_entries, acc) ==
  IF abi_entries = <<>> THEN acc
  ELSE parse_entries(Tail(abi_entries), match_entry(Head(abi_entries), acc))

\* the two empty per-contract vectors
new_contract == [contract_events |-> <<>>, contract_functions |-> <<>>]

\* variant: the divider row is pushed after the contract's rows
contract_rows_divider_last(contract_name, pairs) ==
  [i \in 1..Len(pairs) |-> <<empty, pairs[i][1], pairs[i][2]>>]
    \o << <<contract_name, empty, empty>> >>

\* variant: no divider row for a contract without rows
contract_rows_skip_empty(contract_name, pairs) ==
  IF pairs = <<>> THEN <<>>
  ELSE << <<contract_name, empty, empty>> >>
         \o [i \in 1..Len(pairs) |-> <<empty, pairs[i][1], pairs[i][2]>>]

\* rows pushed for one contract: the divider row, then one row per pair
contract_rows(contract_name, pairs) ==
  << <<contract_name, empty, empty>> >>
    \o [i \in 1..Len(pairs) |-> <<empty, pairs[i][1], pairs[i][2]>>]

\* ------------------------------------------------------------------------
\* Inputs of a run
\* ------------------------------------------------------------------------
\* file stems of the .sol files under the contracts folder, in walk order
\* (files in different folders may share a stem; a stem may hold a comma)
FileStems == << <<"A">>, <<"B", ",", "c">>, <<"B", ",", "c">>, <<"A">> >>

\* contract_name of the i-th file the walk yields
file_stem(i) == FileStems[((i - 1) % Len(FileStems)) + 1]

uint == <<"u">>
tuple_type == <<"(", "u", ",", "a", ")">>
spaced_type == <<" ", "A">>

\* entries an inspected ABI is made of
EntryPool ==
  { AbiEntry("function", Some(<<"f">>), Some(<<uint>>), FALSE),
    AbiEntry("function", None, None, FALSE),
    AbiEntry("event", Some(<<"f">>), Some(<<uint>>), FALSE),
    AbiEntry("event", Some(<<"f">>), Some(<<uint>>), TRUE),
    AbiEntry("constructor", None, Some(<<uint>>), FALSE) }

RECURSIVE SeqsUpTo(_, _)
\* the sequences over S of length at most n
SeqsUpTo(S, n) ==
  IF n = 0 THEN { <<>> }
  ELSE LET shorter == SeqsUpTo(S, n - 1)
       IN  shorter \cup { Append(q, x) : q \in shorter, x \in S }

\* the ABIs forge inspect may print
AbiPool == SeqsUpTo(EntryPool, MaxEntries)

\* outcome of forge inspect for one file, as main() sees it
Inspected(name, outcome, abi) == [name |-> name, outcome |-> outcome, abi |-> abi]

RECURSIVE EntriesSeen(_)
\* ABI entries decoded so far
EntriesSeen(d) ==
  IF d = <<>> THEN 0 ELSE Len(Head(d).abi) + EntriesSeen(Tail(d))

\* ------------------------------------------------------------------------
\* State
\* ------------------------------------------------------------------------
VARIABLES
  pc,              \* "loop" | "done" | "path_panic" | "spawn_panic" | "parse_panic"
  discovered,      \* the files the walk has yielded so far, with their outcome
  csv_events,      \* Vec<[String; 3]>
  csv_selectors,   \* Vec<[String; 3]>
  events_csv,      \* lines written to events/events.csv
  selectors_csv,   \* lines written to selectors/selectors.csv
  entry,           \* SigSpec: the entry handed to the match (Option)
  derived,         \* SigSpec: the per-contract vectors after the match (Option)
  field,           \* CsvSpec: the field handed to escape_csv_field (Option)
  escaped          \* CsvSpec: its result (Option)

vars == <<pc, discovered, csv_events, csv_selectors, events_csv, selectors_csv,
          entry, derived, field, escaped>>

pure_vars == <<entry, derived, field, escaped>>
run_vars == <<pc, discovered, csv_events, csv_selectors, events_csv, selectors_csv>>

\* main() after the headers are pushed (line 79)
RunInit ==
  /\ pc = "loop"
  /\ discovered = <<>>
  /\ csv_events = <<events_header>>
  /\ csv_selectors = <<selectors_header>>
  /\ events_csv = <<>>
  /\ selectors_csv = <<>>

Init ==
  /\ RunInit
  /\ entry = None /\ derived = None
  /\ field = None /\ escaped = None

\* the walk yields one more .sol file
MoreFiles == pc = "loop" /\ Len(discovered) < MaxArtifacts

\* the path or the stem of the file is not valid UTF-8: unwrap()/expect()
\* panics before the contract has a name (lines 89-95)
PathNotUtf8 ==
  /\ MoreFiles
  /\ discovered' = Append(discovered, Inspected(empty, "bad_path", <<>>))
  /\ pc' = "path_panic"
  /\ UNCHANGED <<csv_events, csv_selectors, events_csv, selectors_csv, pure_vars>>

\* Command::output() returns Err: expect() panics (line 103)
InspectSpawnFails(name) ==
  /\ MoreFiles
  /\ discovered' = Append(discovered, Inspected(name, "spawn_error", <<>>))
  /\ pc' = "spawn_panic"
  /\ UNCHANGED <<csv_events, csv_selectors, events_csv, selectors_csv, pure_vars>>

\* variant: no continue, the empty stdout goes to the decoder
InspectNonZero_panics(name) ==
  /\ MoreFiles
  /\ discovered' = Append(discovered, Inspected(name, "non_zero", <<>>))
  /\ pc' = "parse_panic"
  /\ UNCHANGED <<csv_events, csv_selectors, events_csv, selectors_csv, pure_vars>>

\* non-zero exit status: diagnostic, continue (lines 105-112)
InspectNonZero(name) ==
  /\ MoreFiles
  /\ discovered' = Append(discovered, Inspected(name, "non_zero", <<>>))
  /\ UNCHANGED <<pc, csv_events, csv_selectors, events_csv, selectors_csv, pure_vars>>

\* variant: a decode failure skips the file instead of panicking
ParseFails_skips(name) ==
  /\ MoreFiles
  /\ discovered' = Append(discovered, Inspected(name, "malformed", <<>>))
  /\ UNCHANGED <<pc, csv_events, csv_selectors, events_csv, selectors_csv, pure_vars>>

\* stdout does not decode as Vec<AbiEntry>: expect() panics (lines 115-116)
ParseFails(name) ==
  /\ MoreFiles
  /\ discovered' = Append(discovered, Inspected(name, "malformed", <<>>))
  /\ pc' = "parse_panic"
  /\ UNCHANGED <<csv_events, csv_selectors, events_csv, selectors_csv, pure_vars>>

\* one full loop iteration for a contract whose ABI decodes (lines 114-200)
ProcessContract(name, abi_entries) ==
  /\ MoreFiles
  /\ EntriesSeen(discovered) + Len(abi_entries) <= MaxEntries
  /\ LET c == parse_entries(abi_entries, new_contract)
     IN  /\ csv_events' = csv_events \o contract_rows(name, c.contract_events)
         /\ csv_selectors' = csv_selectors \o contract_rows(name, c.contract_functions)
  /\ discovered' = Append(discovered, Inspected(name, "ok", abi_entries))
  /\ UNCHANGED <<pc, events_csv, selectors_csv, pure_vars>>

\* the walk is exhausted: both CSV files are written (lines 203-233)
WriteCsv ==
  /\ pc = "loop"
  /\ events_csv' = [i \in 1..Len(csv_events) |-> csv_line(csv_events[i])]
  /\ selectors_csv' = [i \in 1..Len(csv_selectors) |-> csv_line(csv_selectors[i])]
  /\ pc' = "done"
  /\ UNCHANGED <<discovered, csv_events, csv_selectors, pure_vars>>

\* the contract the next loop iteration is about
NextName == file_stem(Len(discovered) + 1)

Next ==
  \/ PathNotUtf8
  \/ InspectSpawnFails(NextName)
  \/ InspectNonZero(NextName)
  \/ ParseFails(NextName)
  \/ \E abi \in AbiPool : ProcessContract(NextName, abi)
  \/ WriteCsv

Spec == Init /\ [][Next]_vars

\* the walk yields finitely many files and no step of main() blocks: a
\* run that does not panic comes to the end of the walk and writes the files
FairSpec == Spec /\ WF_vars(WriteCsv)

\* ------------------------------------------------------------------------
\* The match on one ABI entry, on its own (SigSpec)
\* ------------------------------------------------------------------------
\* number of inputs of the entry handed to the match in SigSpec
MaxInputs == 2

SigKinds == { "function", "event", "fallback" }
SigNames == { None, Some(<<"f", "o", "o">>), Some(<<"L">>) }
TypePool == { uint, tuple_type, spaced_type }
SigInputs == { None } \cup { Some(ts) : ts \in SeqsUpTo(TypePool, MaxInputs) }

SigEntries ==
  { AbiEntry(k, n, i, a) : k \in SigKinds, n \in SigNames, i \in SigInputs, a \in BOOLEAN }

SigInit ==
  /\ RunInit
  /\ entry \in { Some(e) : e \in SigEntries }
  /\ derived = None
  /\ field = None /\ escaped = None

\* the loop body of lines 123-166 on a contract with this single entry
MatchEntry ==
  /\ entry # None /\ derived = None
  /\ derived' = Some(match_entry(entry[1], new_contract))
  /\ UNCHANGED <<run_vars, entry, field, escaped>>

SigNext == MatchEntry

SigSpec == SigInit /\ [][SigNext]_vars

\* ------------------------------------------------------------------------
\* escape_csv_field on its own (CsvSpec)
\* ------------------------------------------------------------------------
CsvAlphabet == { "a", ",", "\"", "\n", "\r" }

CsvInit ==
  /\ RunInit
  /\ entry = None /\ derived = None
  /\ field \in { Some(f) : f \in SeqsUpTo(CsvAlphabet, MaxFieldLen) }
  /\ escaped = None

EscapeField ==
  /\ field # None /\ escaped = None
  /\ escaped' = Some(escape_csv_field(field[1]))
  /\ UNCHANGED <<run_vars, entry, derived, field>>

CsvNext == EscapeField

CsvSpec == CsvInit /\ [][CsvNext]_vars

\* ------------------------------------------------------------------------
\* Vocabulary of the properties
\* ------------------------------------------------------------------------
\* the contracts whose loop iteration ran to its end, in discovery order
RECURSIVE Processed(_)
Processed(d) ==
  IF d = <<>> THEN <<>>
  ELSE IF Head(d).outcome = "ok" THEN <<Head(d)>> \o Processed(Tail(d))
  ELSE Processed(Tail(d))

IsDividerRow(row) == row[1] # empty /\ row[2] = empty /\ row[3] = empty
IsDataRow(row) == row[1] = empty /\ row[2] # empty /\ row[3] # empty

\* the rows of a table after its header
Body(table) == SubSeq(table, 2, Len(table))

RECURSIVE SegmentsFrom(_, _)
\* rows cut at each row with a non-empty first field: a sequence of
\* [name, rows]; rows that come before any such row form a segment named empty
SegmentsFrom(rows, acc) ==
  IF rows = <<>> THEN acc
  ELSE LET r == Head(rows)
       IN  IF r[1] # empty \/ acc = <<>>
           THEN SegmentsFrom(Tail(rows),
                  Append(acc, [name |-> r[1], rows |-> IF r[1] # empty THEN <<>> ELSE <<r>>]))
           ELSE SegmentsFrom(Tail(rows),
                  [acc EXCEPT ![Len(acc)].rows = Append(@, r)])

Segments(table) == SegmentsFrom(Body(table), <<>>)

\* the entries of an ABI whose type is kind, in declared order
RECURSIVE OfKind(_, _)
OfKind(abi, kind) ==
  IF abi = <<>> THEN <<>>
  ELSE IF Head(abi).kind = kind THEN <<Head(abi)>> \o OfKind(Tail(abi), kind)
  ELSE OfKind(Tail(abi), kind)

\* ------------------------------------------------------------------------
\* C1: each table is the fixed header followed only by divider rows
\* (contract name, "", "") and data rows ("", signature, identifier), and a
\* data row never directly follows the header.
\* ------------------------------------------------------------------------
TableShape(table, header) ==
  /\ Len(table) >= 1
  /\ table[1] = header
  /\ \A i \in 2..Len(table) :
       \/ /\ IsDividerRow(table[i])
          /\ \E k \in 1..Len(discovered) : discovered[k].name = table[i][1]
       \/ /\ IsDataRow(table[i])
          /\ i > 2

C1_TableShape ==
  /\ TableShape(csv_events, events_header)
  /\ TableShape(csv_selectors, selectors_header)

\* both tables hold data rows of two contracts
C1_Witness ==
  /\ pc = "done"
  /\ \E i, j \in 3..Len(csv_events) :
       i + 1 < j /\ IsDataRow(csv_events[i]) /\ IsDividerRow(csv_events[i + 1])
       /\ IsDataRow(csv_events[j])
  /\ \E i \in 3..Len(csv_selectors) : IsDataRow(csv_selectors[i])

\* ------------------------------------------------------------------------
\* C2: each table holds exactly one divider row per processed contract,
\* whatever its ABI holds, and the divider rows of the two tables name the
\* same contracts in the same order.
\* ------------------------------------------------------------------------
RECURSIVE DividerNames(_)
DividerNames(rows) ==
  IF rows = <<>> THEN <<>>
  ELSE IF IsDividerRow(Head(rows)) THEN <<Head(rows)[1]>> \o DividerNames(Tail(rows))
  ELSE DividerNames(Tail(rows))

C2_OneDividerPerContract ==
  LET done == Processed(discovered)
      names == [i \in 1..Len(done) |-> done[i].name]
  IN  /\ DividerNames(Body(csv_events)) = names
      /\ DividerNames(Body(csv_selectors)) = names
      /\ Len(DividerNames(Body(csv_events))) = Len(done)
      /\ Len(DividerNames(Body(csv_selectors))) = Len(done)

\* two contracts processed: one with an empty ABI, one with events only
C2_Witness ==
  LET done == Processed(discovered)
  IN  /\ Len(done) = 2
      /\ done[1].abi = <<>>
      /\ done[2].abi # <<>>
      /\ OfKind(done[2].abi, "function") = <<>>
      /\ OfKind(done[2].abi, "event") # <<>>
      /\ done[1].name # done[2].name

\* ------------------------------------------------------------------------
\* C3: the divider rows follow discovery order, and the data rows under a
\* contract's divider are exactly its entries of the table's kind, in ABI
\* order, none duplicated or dropped.
\* ------------------------------------------------------------------------
OrderedTable(table, kind, RowOf(_)) ==
  LET done == Processed(discovered)
      segs == Segments(table)
  IN  /\ Len(segs) = Len(done)
      /\ \A i \in 1..Len(segs) :
           LET mine == OfKind(done[i].abi, kind)
           IN  /\ segs[i].name = done[i].name
               /\ Len(segs[i].rows) = Len(mine)
               /\ \A j \in 1..Len(mine) :
                    j <= Len(segs[i].rows) =>
                      segs[i].rows[j] = <<empty>> \o RowOf(mine[j])

C3_OrderPreserved ==
  /\ OrderedTable(csv_events, "event", event_arm)
  /\ OrderedTable(csv_selectors, "function", function_arm)

\* a contract with two different events, then a contract with a function
C3_Witness ==
  LET done == Processed(discovered)
  IN  /\ Len(done) = 2
      /\ Len(OfKind(done[1].abi, "event")) = 2
      /\ OfKind(done[1].abi, "event")[1] # OfKind(done[1].abi, "event")[2]
      /\ Len(OfKind(done[2].abi, "function")) = 1
      /\ done[1].name # done[2].name

\* ------------------------------------------------------------------------
\* C7: a processed contract adds as many data rows to the events table as
\* it has "event" entries and as many to the functions table as it has
\* "function" entries; entries of any other type add no row.
\* ------------------------------------------------------------------------
CountOfKind(abi, kind) == Cardinality({ k \in 1..Len(abi) : abi[k].kind = kind })

RECURSIVE SumOver(_, _)
SumOver(d, kind) ==
  IF d = <<>> THEN 0 ELSE CountOfKind(Head(d).abi, kind) + SumOver(Tail(d), kind)

DataRows(table) == Cardinality({ i \in 2..Len(table) : table[i][1] = empty })

C7_RoutedByKind ==
  LET done == Processed(discovered)
  IN  /\ Len(Segments(csv_events)) = Len(done)
      /\ Len(Segments(csv_selectors)) = Len(done)
      /\ \A i \in 1..Len(done) :
           /\ i <= Len(Segments(csv_events)) =>
                Len(Segments(csv_events)[i].rows) = CountOfKind(done[i].abi, "event")
           /\ i <= Len(Segments(csv_selectors)) =>
                Len(Segments(csv_selectors)[i].rows) = CountOfKind(done[i].abi, "function")
      /\ DataRows(csv_events) = SumOver(done, "event")
      /\ DataRows(csv_selectors) = SumOver(done, "function")

\* a contract with an event, a function and an entry of another type
C7_Witness ==
  \E i \in 1..Len(discovered) :
     /\ discovered[i].outcome = "ok"
     /\ CountOfKind(discovered[i].abi, "event") = 1
     /\ CountOfKind(discovered[i].abi, "function") = 1
     /\ Len(discovered[i].abi) = 3

\* ------------------------------------------------------------------------
\* Reference definitions of the properties
\* ------------------------------------------------------------------------
\* name(type1,type2,...) with "unknown" for an absent name
CanonicalSignature(name, inputs) ==
  LET n == IF name = None THEN unknown ELSE name[1]
      ts == IF inputs = None THEN <<>> ELSE inputs[1]
  IN  n \o <<"(">>
        \o Concat([i \in 1..Len(ts) |-> IF i = 1 THEN ts[i] ELSE <<",">> \o ts[i]])
        \o <<")">>

HexChars == { HexDigits[i] : i \in 1..Len(HexDigits) }

\* "0x" followed by two hex digits per byte
RECURSIVE HexOf(_)
HexOf(bytes) ==
  IF bytes = <<>> THEN <<>>
  ELSE <<HexDigits[(Head(bytes) \div 16) + 1], HexDigits[(Head(bytes) % 16) + 1]>>
         \o HexOf(Tail(bytes))

\* the digest of a signature text
DigestOf(signature) == Keccak256_digest(as_bytes(signature))

Panicked == pc \in { "path_panic", "spawn_panic", "parse_panic" }

\* this step is the loop iteration of a file with the given outcome
StepOf(outcome) ==
  /\ Len(discovered') = Len(discovered) + 1
  /\ discovered'[Len(discovered')].outcome = outcome

Seen(outcome) == \E i \in 1..Len(discovered) : discovered[i].outcome = outcome

\* ------------------------------------------------------------------------
\* C4 (as stated): when the tool invocation for an artifact fails or
\* returns a non-zero status, the artifact is skipped and the run goes on
\* to the table-writing step; so a run in which that happened never aborts.
\* ------------------------------------------------------------------------
C4_ToolFailureNeverAborts ==
  (Seen("spawn_error") \/ Seen("non_zero")) => ~Panicked

\* ------------------------------------------------------------------------
\* C4 (amended): when the tool returns a non-zero status for an artifact,
\* that artifact is skipped: both tables are left as they were and the loop
\* goes on with the next file; a run aborts only on a file path that is not
\* valid UTF-8, on a tool that cannot be launched or on an ABI that does not
\* decode, at the file where that happens; and every run that does not
\* abort in one of these three ways reaches the step that writes both tables.
\* ------------------------------------------------------------------------
C4_NonZeroSkipped ==
  /\ [][StepOf("non_zero") =>
          /\ csv_events' = csv_events
          /\ csv_selectors' = csv_selectors
          /\ pc' = "loop"]_vars
  /\ [](Panicked =>
          /\ discovered # <<>>
          /\ pc = "path_panic" <=> discovered[Len(discovered)].outcome = "bad_path"
          /\ pc = "spawn_panic" <=> discovered[Len(discovered)].outcome = "spawn_error"
          /\ pc = "parse_panic" <=> discovered[Len(discovered)].outcome = "malformed")
  /\ [](Seen("non_zero") =>
          <>(pc = "done" \/ Seen("bad_path") \/ Seen("spawn_error") \/ Seen("malformed")))

\* a skipped artifact between two processed contracts, and the files written
C4_Witness ==
  /\ pc = "done"
  /\ Len(discovered) >= 2
  /\ discovered[1].outcome = "non_zero"
  /\ discovered[2].outcome = "ok"
  /\ discovered[2].abi # <<>>
  /\ Len(csv_events) + Len(csv_selectors) > 4
  /\ Len(events_csv) = Len(csv_events)
  /\ Len(selectors_csv) = Len(csv_selectors)

\* ------------------------------------------------------------------------
\* C5: an ABI that does not decode adds nothing to either table and is
\* fatal for the run: the tables stay as the earlier contracts left them
\* and neither CSV file is ever written, also when contracts were processed
\* before the failing one.
\* ------------------------------------------------------------------------
C5_DecodeFailureFatal ==
  /\ [][StepOf("malformed") =>
          /\ csv_events' = csv_events
          /\ csv_selectors' = csv_selectors
          /\ pc' = "parse_panic"]_vars
  /\ [](Seen("malformed") =>
          /\ pc = "parse_panic"
          /\ discovered[Len(discovered)].outcome = "malformed"
          /\ events_csv = <<>>
          /\ selectors_csv = <<>>)
  /\ [][pc = "parse_panic" => pc' = "parse_panic"]_vars

\* a decode failure after a contract that put rows in both tables
C5_Witness ==
  /\ pc = "parse_panic"
  /\ Len(discovered) = 2
  /\ discovered[1].outcome = "ok"
  /\ discovered[2].outcome = "malformed"
  /\ Len(csv_events) > 2
  /\ Len(csv_selectors) > 2

\* ------------------------------------------------------------------------
\* C6: the topic in an event's data row is the digest of the unsuffixed
\* canonical signature S: an anonymous event is shown as S + " [anonymous]"
\* with the topic of the non-anonymous event of signature S, a
\* non-anonymous event is shown as S, and a function row is shown as S.
\* ------------------------------------------------------------------------
C6_AnonymousDisplayOnly ==
  LET done == Processed(discovered)
      esegs == Segments(csv_events)
      fsegs == Segments(csv_selectors)
  IN  /\ Len(esegs) = Len(done)
      /\ Len(fsegs) = Len(done)
      /\ \A i \in 1..Len(done) :
           LET evs == OfKind(done[i].abi, "event")
               fns == OfKind(done[i].abi, "function")
           IN  /\ i <= Len(esegs) => Len(esegs[i].rows) = Len(evs)
               /\ i <= Len(fsegs) => Len(fsegs[i].rows) = Len(fns)
               /\ \A j \in 1..Len(evs) :
                    (i <= Len(esegs) /\ j <= Len(esegs[i].rows)) =>
                      LET S == CanonicalSignature(evs[j].name, evs[j].inputs)
                          row == esegs[i].rows[j]
                      IN  /\ row[2] = IF evs[j].anonymous THEN S \o anonymous_suffix ELSE S
                          /\ row[3] = <<"0", "x">> \o HexOf(DigestOf(S))
                          /\ row[3] = event_arm([evs[j] EXCEPT !.anonymous = FALSE])[2]
               /\ \A j \in 1..Len(fns) :
                    (i <= Len(fsegs) /\ j <= Len(fsegs[i].rows)) =>
                      fsegs[i].rows[j][2] = CanonicalSignature(fns[j].name, fns[j].inputs)

\* one contract with an anonymous and a non-anonymous event of the same
\* signature, and a function
C6_Witness ==
  \E i \in 1..Len(discovered) :
     /\ discovered[i].outcome = "ok"
     /\ \E a, b \in 1..Len(discovered[i].abi) :
          /\ discovered[i].abi[a].kind = "event"
          /\ discovered[i].abi[b].kind = "event"
          /\ discovered[i].abi[a].anonymous
          /\ ~discovered[i].abi[b].anonymous
          /\ discovered[i].abi[a].name = discovered[i].abi[b].name
          /\ discovered[i].abi[a].inputs = discovered[i].abi[b].inputs
     /\ \E c \in 1..Len(discovered[i].abi) : discovered[i].abi[c].kind = "function"
     /\ \E r \in 1..Len(csv_events) :
          /\ Len(csv_events[r][2]) > Len(anonymous_suffix)
          /\ SubSeq(csv_events[r][2],
                    Len(csv_events[r][2]) - Len(anonymous_suffix) + 1,
                    Len(csv_events[r][2])) = anonymous_suffix

\* ------------------------------------------------------------------------
\* C8: the signature of a function or event entry is
\* name "(" types joined with "," ")", with "unknown" for an absent name and
\* "name()" for absent or empty inputs ("foo" without inputs gives "foo()");
\* it is the same for a function and an event of the same name and inputs.
\* ------------------------------------------------------------------------
foo_signature == <<"f", "o", "o", "(", ")">>

\* the signature text the match produced for the entry, without the display
\* suffix of an anonymous event
DerivedSignature ==
  LET e == entry[1]
      d == derived[1]
  IN  IF e.kind = "function" THEN d.contract_functions[1][1]
      ELSE IF e.anonymous
      THEN SubSeq(d.contract_events[1][1], 1,
                  Len(d.contract_events[1][1]) - Len(anonymous_suffix))
      ELSE d.contract_events[1][1]

C8_CanonicalSignature ==
  (derived # None /\ entry[1].kind \in { "function", "event" }) =>
    LET e == entry[1]
        d == derived[1]
    IN  /\ Len(d.contract_functions) = (IF e.kind = "function" THEN 1 ELSE 0)
        /\ Len(d.contract_events) = (IF e.kind = "event" THEN 1 ELSE 0)
        /\ DerivedSignature = CanonicalSignature(e.name, e.inputs)
        /\ e.name = None =>
             SubSeq(DerivedSignature, 1, Len(unknown) + 1) = unknown \o <<"(">>
        /\ (e.name = Some(<<"f", "o", "o">>) /\ e.inputs \in { None, Some(<<>>) }) =>
             DerivedSignature = foo_signature
        /\ function_arm(e)[1] = event_arm([e EXCEPT !.anonymous = FALSE])[1]

\* a function without a name and with two inputs, of which one holds a
\* comma and one a space
C8_Witness ==
  /\ derived # None
  /\ entry[1].kind = "function"
  /\ entry[1].name = None
  /\ entry[1].inputs = Some(<<tuple_type, spaced_type>>)
  /\ derived[1].contract_functions[1][1] =
       unknown \o <<"(">> \o tuple_type \o <<",">> \o spaced_type \o <<")">>

\* ------------------------------------------------------------------------
\* C9: a selector is "0x" and the 8 hex digits of the first 4 digest bytes
\* (10 characters), a topic is "0x" and the 64 hex digits of the whole
\* digest (66 characters), and the selector of a signature is the first 10
\* characters of its topic.
\* ------------------------------------------------------------------------
IsHex(s, n) ==
  /\ Len(s) = n + 2
  /\ s[1] = "0" /\ s[2] = "x"
  /\ \A k \in 3..Len(s) : s[k] \in HexChars

C9_IdentifierFormat ==
  (derived # None /\ entry[1].kind \in { "function", "event" }) =>
    LET e == entry[1]
        d == derived[1]
        S == CanonicalSignature(e.name, e.inputs)
        digest == DigestOf(S)
        selector_of_S == function_arm(e)[2]
        topic_of_S == event_arm(e)[2]
    IN  /\ Len(digest) = 32
        /\ e.kind = "function" =>
             /\ IsHex(d.contract_functions[1][2], 8)
             /\ Len(d.contract_functions[1][2]) = 10
             /\ d.contract_functions[1][2] = <<"0", "x">> \o HexOf(SubSeq(digest, 1, 4))
        /\ e.kind = "event" =>
             /\ IsHex(d.contract_events[1][2], 64)
             /\ Len(d.contract_events[1][2]) = 66
             /\ d.contract_events[1][2] = <<"0", "x">> \o HexOf(digest)
        /\ selector_of_S = SubSeq(topic_of_S, 1, 10)

\* a selector whose first digest byte is below 16 (a leading hex zero) and
\* whose digest differs between its first and its last four bytes
C9_Witness ==
  /\ derived # None
  /\ entry[1].kind = "function"
  /\ derived[1].contract_functions[1][2][3] = "0"
  /\ LET digest == DigestOf(derived[1].contract_functions[1][1])
     IN  SubSeq(digest, 1, 4) # SubSeq(digest, 29, 32)

\* ------------------------------------------------------------------------
\* C10: escape_csv_field wraps a field in quotes, with every quote inside
\* doubled, exactly when the field holds a comma, a quote or a line break,
\* leaves any other field as it is, and reading the result back (strip the
\* outer quotes, undouble the quotes inside) gives the field.
\* ------------------------------------------------------------------------
RECURSIVE Undouble(_)
Undouble(s) ==
  IF Len(s) >= 2 /\ s[1] = "\"" /\ s[2] = "\"" THEN <<"\"">> \o Undouble(SubSeq(s, 3, Len(s)))
  ELSE IF s = <<>> THEN <<>>
  ELSE <<Head(s)>> \o Undouble(Tail(s))

\* a CSV reader on one field
ReadCsvField(s) ==
  IF Len(s) >= 2 /\ s[1] = "\"" /\ s[Len(s)] = "\""
  THEN Undouble(SubSeq(s, 2, Len(s) - 1))
  ELSE s

NeedsQuotes(f) == \E i \in 1..Len(f) : f[i] \in { ",", "\"", "\n" }

Quotes(s) == Cardinality({ i \in 1..Len(s) : s[i] = "\"" })

====
